---- MODULE Spec2Model ----
(***************************************************************************)
(* Model of distribute_reads_to_targets_bwa.py: read_sorting builds the    *)
(* hit index from the lines of `samtools view -F 4`, distribute_reads      *)
(* streams one or two FASTQ sources and appends the matching reads to the  *)
(* per-target files.                                                       *)
(*                                                                         *)
(* Text is modelled as a sequence of one-character strings, so that        *)
(* str.split, str.endswith and slicing are computed character by           *)
(* character.  SOH and STX stand for the control characters chr(1) and     *)
(* chr(2), which is what the Python literals "\1" and "\2" denote.         *)
(*                                                                         *)
(* Scope of the inputs: one or two read files (the two modes the script    *)
(* handles), FASTQ titles with at least one token, target names that are   *)
(* usable directory names (no file-system failure is modelled).            *)
(***************************************************************************)
EXTENDS Integers, Sequences, FiniteSets, TLC

\* bam            the lines `samtools view -F 4` prints (read_sorting, l. 32-35)
\* readfiles      the records of each read file, in file order (l. 84, 98)
\* merged         args.merged (l. 125)
\* pc, err        where main is ("read_sorting", "distribute", "done",
\*                "failed") and the uncaught exception that stopped it
\* i              lines of bam the loop of read_sorting has processed
\* read_hit_dict  the hit index under construction (l. 38)
\* it1, it2       records taken from iterator1 and iterator2
\* dirs, files    directories made by mkdir_p; content of each output file
\* run            which invocation of the script this is
\* hist           hist[r]: the content of the files when invocation r started
VARIABLES bam, readfiles, merged, pc, err, i, read_hit_dict, it1, it2,
          dirs, files, run, hist

vars == <<bam, readfiles, merged, pc, err, i, read_hit_dict, it1, it2,
          dirs, files, run, hist>>

\* ------------------------------------------------------------------ bounds
MaxHits  == 3   \* lines of alignment-filter output
MaxReads == 2   \* records per read source
MaxRuns  == 2   \* invocations of main() against the same output directory

\* ------------------------------------------------------------- characters
SOH == "^A"
STX == "^B"
Whitespace == {" "}

\* ------------------------------------------------------------ str helpers
RECURSIVE SplitAcc(_, _, _)
SplitAcc(s, cur, out) ==
    IF s = <<>> THEN (IF cur = <<>> THEN out ELSE Append(out, cur))
    ELSE IF Head(s) \in Whitespace
         THEN SplitAcc(Tail(s), <<>>, IF cur = <<>> THEN out ELSE Append(out, cur))
         ELSE SplitAcc(Tail(s), Append(cur, Head(s)), out)

\* str.split(): the maximal runs of non-whitespace characters
Split(s) == SplitAcc(s, <<>>, <<>>)

RECURSIVE SplitOnAcc(_, _, _, _)
SplitOnAcc(s, c, cur, out) ==
    IF s = <<>> THEN Append(out, cur)
    ELSE IF Head(s) = c
         THEN SplitOnAcc(Tail(s), c, <<>>, Append(out, cur))
         ELSE SplitOnAcc(Tail(s), c, Append(cur, Head(s)), out)

\* str.split(c): the pieces between the occurrences of c, empty ones kept
SplitOn(s, c) == SplitOnAcc(s, c, <<>>, <<>>)

\* seq[-1]
Last(q) == q[Len(q)]

\* str.endswith(suf)
EndsWith(s, suf) ==
    /\ Len(s) >= Len(suf)
    /\ SubSeq(s, Len(s) - Len(suf) + 1, Len(s)) = suf

\* s[:-2]
DropLast2(s) == SubSeq(s, 1, Len(s) - 2)

\* x in list
InList(x, q) == \E k \in 1..Len(q) : q[k] = x

\* ------------------------------------------------------------------ inputs
\* Lines of `samtools view -F 4` (read name, flag, reference name, ...)
LineA5    == <<"a", " ", "0", " ", "g", "-", "h", "-", "5">>
LineA6    == <<"a", " ", "0", " ", "g", "-", "6">>
LineB6    == <<"b", " ", "0", " ", "6">>
LineA1_6  == <<"a", "/", "1", " ", "0", " ", "g", "-", "6">>
LineShort == <<"a", " ", "0">>
HitLines  == {LineA5, LineA6, LineB6, LineA1_6, LineShort}

\* Title lines of FASTQ records, as FastqGeneralIterator yields them
TitleA    == <<"a">>
TitleA1   == <<"a", "/", "1">>
TitleB2x  == <<"b", "/", "2", " ", "x">>
TitleAbS  == <<"a", "b", SOH>>
\* The title ending in chr(1) matters to the single-end loop only, which is
\* the one that tests for it
SingleTitles == {TitleA, TitleA1, TitleB2x, TitleAbS}
PairedTitles == {TitleA, TitleA1, TitleB2x}

SeqsUpTo(S, n) == UNION {[1..k -> S] : k \in 0..n}

\* A read source: the records FastqGeneralIterator yields for one file.  The
\* sequence and quality strings are opaque to the script; each record gets
\* its own, so that a written record can be traced to its source position.
MkSource(s, titles) ==
    [p \in 1..Len(titles) |->
        [title |-> titles[p], seq |-> <<"seq", s, p>>, qual |-> <<"qual", s, p>>]]

SingleEnd(t1)     == <<MkSource(1, t1)>>
PairedEnd(t1, t2) == <<MkSource(1, t1), MkSource(2, t2)>>

AllBams == SeqsUpTo(HitLines, MaxHits)
AllReadfiles ==
    {SingleEnd(t1) : t1 \in SeqsUpTo(SingleTitles, MaxReads)}
    \cup {PairedEnd(t[1], t[2]) :
            t \in SeqsUpTo(PairedTitles, MaxReads) \X SeqsUpTo(PairedTitles, MaxReads)}

BamSamples == {<<LineA5, LineB6>>, <<LineA5, LineA6>>, <<LineA1_6>>}
ReadfilesSamples ==
    {SingleEnd(<<TitleA, TitleB2x>>), PairedEnd(<<TitleA1>>, <<TitleB2x>>)}

\* ------------------------------------------------------------ file system
EmptyDict == [k \in {} |-> <<>>]
NoFiles   == [f \in {} |-> <<>>]

\* os.path.join(target, "{}_<suffix>".format(target))
Path(target, suffix) == <<target, "/", target, suffix>>

\* AppendTo with the file opened in mode 'w'
WriteTruncating(fs, path, recs) ==
    IF path \in DOMAIN fs
    THEN [fs EXCEPT ![path] = recs]
    ELSE fs @@ (path :> recs)

\* open(path, 'a'); write(...); close(): the file is created when absent and
\* the records go after whatever it holds
AppendTo(fs, path, recs) ==
    IF path \in DOMAIN fs
    THEN [fs EXCEPT ![path] = @ \o recs]
    ELSE fs @@ (path :> recs)

\* ">{}\n{}\n".format(ID, Seq)
Fasta(ID, Sq) == [fmt |-> "fasta", id |-> ID, seq |-> Sq]

\* "@{}\n{}\n{}\n{}\n".format(ID, Seq, '+', Qual)
Fastq(ID, Sq, Qual) == [fmt |-> "fastq", id |-> ID, seq |-> Sq, sep |-> "+", qual |-> Qual]

\* The output directory: the directories made and the content of each file
Disk == [dirs |-> dirs, files |-> files]

\* os.makedirs(path), an existing directory tolerated
mkdir_p(disk, path) == [disk EXCEPT !.dirs = @ \cup {path}]

\* ------------------------------------------------------------ read_sorting
\* HitUpdate without the `target not in` test
HitUpdateNoDedup(d, line) ==
    LET readID == line[1]
        target == Last(SplitOn(line[3], "-"))
    IN  IF readID \in DOMAIN d
        THEN [d EXCEPT ![readID] = Append(@, target)]
        ELSE d @@ (readID :> <<target>>)

\* One iteration of the loop of read_sorting over an already split line
HitUpdate(d, line) ==
    LET readID == line[1]
        target == Last(SplitOn(line[3], "-"))
    IN  IF readID \in DOMAIN d
        THEN IF ~InList(target, d[readID])
             THEN [d EXCEPT ![readID] = Append(@, target)]
             ELSE d
        ELSE d @@ (readID :> <<target>>)

Init ==
    /\ \/ bam \in AllBams /\ readfiles \in ReadfilesSamples
       \/ bam \in BamSamples /\ readfiles \in AllReadfiles
    /\ merged \in BOOLEAN
    /\ pc = "read_sorting"
    /\ err = "none"
    /\ i = 0
    /\ read_hit_dict = EmptyDict
    /\ it1 = 0
    /\ it2 = 0
    /\ dirs = {}
    /\ files = NoFiles
    /\ run = 1
    /\ hist = <<NoFiles>>

ReadSortingStep ==
    /\ pc = "read_sorting"
    /\ i < Len(bam)
    /\ Len(Split(bam[i + 1])) >= 3
    /\ read_hit_dict' = HitUpdate(read_hit_dict, Split(bam[i + 1]))
    /\ i' = i + 1
    /\ UNCHANGED <<bam, readfiles, merged, pc, err, it1, it2, dirs, files, run, hist>>

\* ReadSortingIndexError with the short line skipped instead
ReadSortingSkipShort ==
    /\ pc = "read_sorting"
    /\ i < Len(bam)
    /\ Len(Split(bam[i + 1])) < 3
    /\ i' = i + 1
    /\ UNCHANGED <<bam, readfiles, merged, pc, err, read_hit_dict, it1, it2, dirs, files, run, hist>>

\* line[0] or line[2] of a line with too few fields: IndexError, uncaught
ReadSortingIndexError ==
    /\ pc = "read_sorting"
    /\ i < Len(bam)
    /\ Len(Split(bam[i + 1])) < 3
    /\ pc' = "failed"
    /\ err' = "IndexError"
    /\ UNCHANGED <<bam, readfiles, merged, i, read_hit_dict, it1, it2, dirs, files, run, hist>>

\* return read_hit_dict; main goes on to distribute_reads
ReadSortingReturn ==
    /\ pc = "read_sorting"
    /\ i = Len(bam)
    /\ pc' = "distribute"
    /\ UNCHANGED <<bam, readfiles, merged, err, i, read_hit_dict, it1, it2, dirs, files, run, hist>>

\* -------------------------------------------------------- distribute_reads
write_single_seqs(disk, target, ID1, Seq1) ==
    LET made == mkdir_p(disk, target)
    IN  [made EXCEPT !.files =
            AppendTo(@, Path(target, "_unpaired.fasta"), <<Fasta(ID1, Seq1)>>)]

\* write_paired_seqs with the two writes of each file in the other order
write_paired_seqs_mate2_first(disk, target, ID1, Seq1, Qual1, ID2, Seq2, Qual2, single, mrg) ==
    LET made == mkdir_p(disk, target)
        p    == Path(target, "_interleaved.fastq")
        fq   == IF mrg
                THEN AppendTo(made.files, p,
                              <<Fastq(ID2, Seq2, Qual2), Fastq(ID1, Seq1, Qual1)>>)
                ELSE made.files
    IN  [made EXCEPT !.files =
            AppendTo(fq, Path(target, "_interleaved.fasta"),
                     <<Fasta(ID2, Seq2), Fasta(ID1, Seq1)>>)]

\* write_paired_seqs with the FASTA writes in an else branch of `if merged`
write_paired_seqs_fastq_only(disk, target, ID1, Seq1, Qual1, ID2, Seq2, Qual2, single, mrg) ==
    LET made == mkdir_p(disk, target)
    IN  IF mrg
        THEN [made EXCEPT !.files =
                AppendTo(@, Path(target, "_interleaved.fastq"),
                         <<Fastq(ID1, Seq1, Qual1), Fastq(ID2, Seq2, Qual2)>>)]
        ELSE [made EXCEPT !.files =
                AppendTo(@, Path(target, "_interleaved.fasta"),
                         <<Fasta(ID1, Seq1), Fasta(ID2, Seq2)>>)]

write_paired_seqs(disk, target, ID1, Seq1, Qual1, ID2, Seq2, Qual2, single, mrg) ==
    LET made == mkdir_p(disk, target)
        fq   == IF mrg
                THEN AppendTo(AppendTo(made.files, Path(target, "_interleaved.fastq"),
                                       <<Fastq(ID1, Seq1, Qual1)>>),
                              Path(target, "_interleaved.fastq"),
                              <<Fastq(ID2, Seq2, Qual2)>>)
                ELSE made.files
    IN  IF single
        THEN [made EXCEPT !.files =
                AppendTo(AppendTo(fq, Path(target, "_interleaved.fasta"),
                                  <<Fasta(ID1, Seq1)>>),
                         Path(target, "_interleaved.fasta"),
                         <<Fasta(ID2, Seq2)>>)]
        ELSE [made EXCEPT !.files =
                AppendTo(AppendTo(@, Path(target, "_1.fasta"), <<Fasta(ID1, Seq1)>>),
                         Path(target, "_2.fasta"),
                         <<Fasta(ID2, Seq2)>>)]

\* ID1 of the single-end loop: the first token, cut by two characters when it
\* ends with chr(1) or chr(2)
SingleID(title) ==
    LET ID1 == Split(title)[1]
    IN  IF EndsWith(ID1, <<SOH>>) \/ EndsWith(ID1, <<STX>>)
        THEN DropLast2(ID1)
        ELSE ID1

\* ID1 and ID2 of the paired loop: the first token, cut by two characters when
\* it ends with "/1" or "/2"
PairedID(title) ==
    LET ID == Split(title)[1]
    IN  IF EndsWith(ID, <<"/", "1">>) \/ EndsWith(ID, <<"/", "2">>)
        THEN DropLast2(ID)
        ELSE ID

\* for target in read_hit_dict[ID1]: write_single_seqs(target, ID1, Seq1)
RECURSIVE WriteSingleEach(_, _, _, _)
WriteSingleEach(disk, targets, ID1, Seq1) ==
    IF targets = <<>> THEN disk
    ELSE WriteSingleEach(write_single_seqs(disk, Head(targets), ID1, Seq1),
                         Tail(targets), ID1, Seq1)

\* for target in ...: write_paired_seqs(target, ID1, ..., Qual2, merged=merged)
RECURSIVE WritePairedEach(_, _, _, _, _)
WritePairedEach(disk, targets, r1, r2, mrg) ==
    IF targets = <<>> THEN disk
    ELSE WritePairedEach(
            write_paired_seqs(disk, Head(targets), r1.id, r1.seq, r1.qual,
                              r2.id, r2.seq, r2.qual, TRUE, mrg),
            Tail(targets), r1, r2, mrg)

\* The body of the single-end loop for one record
SingleBody(disk, d, rec) ==
    LET ID1 == SingleID(rec.title)
    IN  IF ID1 \in DOMAIN d
        THEN WriteSingleEach(disk, d[ID1], ID1, rec.seq)
        ELSE disk

\* PairedBody with ID2 looked up before ID1
PairedBodyID2First(disk, d, rec1, rec2, mrg) ==
    LET ID1 == PairedID(rec1.title)
        ID2 == PairedID(rec2.title)
        r1  == [id |-> ID1, seq |-> rec1.seq, qual |-> rec1.qual]
        r2  == [id |-> ID2, seq |-> rec2.seq, qual |-> rec2.qual]
    IN  IF ID2 \in DOMAIN d
        THEN WritePairedEach(disk, d[ID2], r1, r2, mrg)
        ELSE IF ID1 \in DOMAIN d
             THEN WritePairedEach(disk, d[ID1], r1, r2, mrg)
             ELSE disk

\* The body of the paired loop for the records read from the two iterators
PairedBody(disk, d, rec1, rec2, mrg) ==
    LET ID1 == PairedID(rec1.title)
        ID2 == PairedID(rec2.title)
        r1  == [id |-> ID1, seq |-> rec1.seq, qual |-> rec1.qual]
        r2  == [id |-> ID2, seq |-> rec2.seq, qual |-> rec2.qual]
    IN  IF ID1 \in DOMAIN d
        THEN WritePairedEach(disk, d[ID1], r1, r2, mrg)
        ELSE IF ID2 \in DOMAIN d
             THEN WritePairedEach(disk, d[ID2], r1, r2, mrg)
             ELSE disk

DistributeSingleStep ==
    /\ pc = "distribute"
    /\ Len(readfiles) = 1
    /\ it1 < Len(readfiles[1])
    /\ LET out == SingleBody(Disk, read_hit_dict, readfiles[1][it1 + 1])
       IN  dirs' = out.dirs /\ files' = out.files
    /\ it1' = it1 + 1
    /\ UNCHANGED <<bam, readfiles, merged, pc, err, i, read_hit_dict, it2, run, hist>>

\* iterator1 is exhausted: return
DistributeSingleReturn ==
    /\ pc = "distribute"
    /\ Len(readfiles) = 1
    /\ it1 = Len(readfiles[1])
    /\ pc' = "done"
    /\ UNCHANGED <<bam, readfiles, merged, err, i, read_hit_dict, it1, it2, dirs, files, run, hist>>

DistributePairedStep ==
    /\ pc = "distribute"
    /\ Len(readfiles) = 2
    /\ it1 < Len(readfiles[1])
    /\ it2 < Len(readfiles[2])
    /\ LET out == PairedBody(Disk, read_hit_dict, readfiles[1][it1 + 1],
                             readfiles[2][it2 + 1], merged)
       IN  dirs' = out.dirs /\ files' = out.files
    /\ it1' = it1 + 1
    /\ it2' = it2 + 1
    /\ UNCHANGED <<bam, readfiles, merged, pc, err, i, read_hit_dict, run, hist>>

\* DistributePairedStopIteration with mate 1 written before mate 2 is fetched
DistributePairedWriteThenStop ==
    /\ pc = "distribute"
    /\ Len(readfiles) = 2
    /\ it1 < Len(readfiles[1])
    /\ it2 = Len(readfiles[2])
    /\ LET rec1 == readfiles[1][it1 + 1]
           ID1  == PairedID(rec1.title)
           out  == IF ID1 \in DOMAIN read_hit_dict
                   THEN mkdir_p([Disk EXCEPT !.files =
                                    AppendTo(@, Path(read_hit_dict[ID1][1], "_interleaved.fasta"),
                                             <<Fasta(ID1, rec1.seq)>>)],
                                read_hit_dict[ID1][1])
                   ELSE Disk
       IN  dirs' = out.dirs /\ files' = out.files
    /\ it1' = it1 + 1
    /\ pc' = "failed"
    /\ err' = "StopIteration"
    /\ UNCHANGED <<bam, readfiles, merged, i, read_hit_dict, it2, run, hist>>

\* The for statement has taken a record from iterator1 and next(iterator2)
\* finds iterator2 exhausted: StopIteration, uncaught
DistributePairedStopIteration ==
    /\ pc = "distribute"
    /\ Len(readfiles) = 2
    /\ it1 < Len(readfiles[1])
    /\ it2 = Len(readfiles[2])
    /\ it1' = it1 + 1
    /\ pc' = "failed"
    /\ err' = "StopIteration"
    /\ UNCHANGED <<bam, readfiles, merged, i, read_hit_dict, it2, dirs, files, run, hist>>

\* iterator1 is exhausted: the for loop ends, whatever iterator2 still holds
DistributePairedReturn ==
    /\ pc = "distribute"
    /\ Len(readfiles) = 2
    /\ it1 = Len(readfiles[1])
    /\ pc' = "done"
    /\ UNCHANGED <<bam, readfiles, merged, err, i, read_hit_dict, it1, it2, dirs, files, run, hist>>

\* The script is started again with the same arguments in the same working
\* directory; hist keeps the content of the files at the start of each run
Rerun ==
    /\ pc \in {"done", "failed"}
    /\ run < MaxRuns
    /\ run' = run + 1
    /\ hist' = Append(hist, files)
    /\ pc' = "read_sorting"
    /\ err' = "none"
    /\ i' = 0
    /\ read_hit_dict' = EmptyDict
    /\ it1' = 0
    /\ it2' = 0
    /\ UNCHANGED <<bam, readfiles, merged, dirs, files>>

Next ==
    \/ ReadSortingStep
    \/ ReadSortingIndexError
    \/ ReadSortingReturn
    \/ DistributeSingleStep
    \/ DistributeSingleReturn
    \/ DistributePairedStep
    \/ DistributePairedStopIteration
    \/ DistributePairedReturn
    \/ Rerun

Spec == Init /\ [][Next]_vars

\* ================================================================== claims
Range(q) == {q[k] : k \in 1..Len(q)}

\* The number of whitespace-delimited fields of a line: the positions where a
\* field starts
FieldCount(s) ==
    Cardinality({k \in 1..Len(s) :
                    s[k] \notin Whitespace /\ (k = 1 \/ s[k - 1] \in Whitespace)})

\* The part of a reference name after its last hyphen (all of it without one)
AfterLastHyphen(s) ==
    LET k == CHOOSE k \in 0..Len(s) :
                /\ \A j \in (k + 1)..Len(s) : s[j] # "-"
                /\ k = 0 \/ s[k] = "-"
    IN  SubSeq(s, k + 1, Len(s))

LineRead(k)   == Split(bam[k])[1]
LineTarget(k) == AfterLastHyphen(Split(bam[k])[3])

\* The first line among the i processed ones that pairs read r with target t
FirstHit(r, t) ==
    CHOOSE k \in 1..i :
        /\ LineRead(k) = r /\ LineTarget(k) = t
        /\ \A j \in 1..(k - 1) : ~(LineRead(j) = r /\ LineTarget(j) = t)

\* C5: after each processed alignment-hit line, every read identifier of the
\* lines processed so far (and no other) is a key of the hit index; its list
\* holds no target twice, holds exactly the targets some processed line pairs
\* the read with (the part of the third field after its last hyphen), and
\* holds them in order of first occurrence.
C5_HitIndexDeduplicated ==
    /\ DOMAIN read_hit_dict = {LineRead(k) : k \in 1..i}
    /\ \A r \in DOMAIN read_hit_dict :
          LET L == read_hit_dict[r]
          IN  /\ \A x, y \in 1..Len(L) : x # y => L[x] # L[y]
              /\ Range(L) = {LineTarget(k) : k \in {j \in 1..i : LineRead(j) = r}}
              /\ \A x, y \in 1..Len(L) :
                    x < y => FirstHit(r, L[x]) < FirstHit(r, L[y])

\* C5 witness: three lines are processed, a (read, target) pair came twice
\* and the read has two targets
C5_Witness ==
    /\ i = 3
    /\ \E x, y \in 1..i :
          x # y /\ LineRead(x) = LineRead(y) /\ LineTarget(x) = LineTarget(y)
    /\ \E r \in DOMAIN read_hit_dict : Len(read_hit_dict[r]) = 2

MalformedBam == \E k \in 1..Len(bam) : FieldCount(bam[k]) < 3

\* C9: when some line of the alignment-filter output has fewer than three
\* fields, the index build never returns and distribution never starts, a
\* stopped run has stopped on the failed field access, and no directory and
\* no file has been made or written.
C9_MalformedLineAborts ==
    MalformedBam =>
        /\ pc \in {"read_sorting", "failed"}
        /\ pc = "read_sorting" => i < Len(bam)
        /\ pc = "failed" => err = "IndexError"
        /\ files = NoFiles
        /\ dirs = {}

\* C9 witness: the build has failed on a short line after processing good ones
C9_Witness ==
    /\ pc = "failed"
    /\ err = "IndexError"
    /\ i >= 1
    /\ read_hit_dict # EmptyDict

\* ------------------------------------------------------- distribution claims
\* The read identifier of a record: the first whitespace-delimited token of
\* its title, without a trailing "/1" or "/2"
NormalizedID(title) ==
    LET tok == Split(title)[1]
        n   == Len(tok)
    IN  IF n >= 2 /\ tok[n - 1] = "/" /\ tok[n] \in {"1", "2"}
        THEN [k \in 1..(n - 2) |-> tok[k]]
        ELSE tok

SingleMode == Len(readfiles) = 1
PairedMode == Len(readfiles) = 2

\* read_sorting has returned in the current run
IndexBuilt == pc \in {"distribute", "done"} \/ (pc = "failed" /\ err = "StopIteration")

UnpairedFasta(t)    == Path(t, "_unpaired.fasta")
InterleavedFasta(t) == Path(t, "_interleaved.fasta")
InterleavedFastq(t) == Path(t, "_interleaved.fastq")

\* The records the current run has appended to a file
Written(path) ==
    IF path \notin DOMAIN files THEN <<>>
    ELSE IF path \notin DOMAIN hist[run] THEN files[path]
    ELSE SubSeq(files[path], Len(hist[run][path]) + 1, Len(files[path]))

\* How often the record with sequence payload sq occurs in a list of records
Occurrences(recs, sq) == Cardinality({k \in 1..Len(recs) : recs[k].seq = sq})

\* Every target some read of the index or some file of the directory names
TargetNames ==
    UNION {Range(read_hit_dict[r]) : r \in DOMAIN read_hit_dict}
    \cup {f[1] : f \in DOMAIN files}

\* C1 (as claimed): in paired-end mode a run over two sources of different
\* record counts never ends successfully, whichever source is the shorter.
C1_UnevenSourcesNeverSucceed ==
    (PairedMode /\ Len(readfiles[1]) # Len(readfiles[2])) => pc # "done"

\* C2 (as claimed): in single-end mode every processed record whose
\* normalized identifier (first token, trailing /1 or /2 stripped) is a key of
\* the hit index is in the unpaired FASTA file of every target of that key.
C2_SingleEndNormalizedLookup ==
    (SingleMode /\ IndexBuilt) =>
        \A p \in 1..it1 :
            LET rec == readfiles[1][p]
                n   == NormalizedID(rec.title)
            IN  n \in DOMAIN read_hit_dict =>
                    \A t \in Range(read_hit_dict[n]) :
                        /\ UnpairedFasta(t) \in DOMAIN files
                        /\ Fasta(n, rec.seq) \in Range(files[UnpairedFasta(t)])

\* The targets the claim assigns the p-th record of the single source to
AssignedSingle(p) ==
    LET n == NormalizedID(readfiles[1][p].title)
    IN  IF n \in DOMAIN read_hit_dict THEN Range(read_hit_dict[n]) ELSE {}

\* C6 (as claimed): in single-end mode only unpaired FASTA files exist, a
\* target's file holds each processed record once per run when the record's
\* normalized identifier is a key of the hit index with that target in its
\* list and not at all otherwise, and a directory exists only for a target
\* some processed record is assigned to.
C6_SingleEndOnlyAssigned ==
    (SingleMode /\ IndexBuilt) =>
        /\ \A f \in DOMAIN files : f[4] = "_unpaired.fasta"
        /\ \A t \in TargetNames :
              /\ \A p \in 1..it1 :
                    Occurrences(Written(UnpairedFasta(t)), readfiles[1][p].seq)
                        = IF t \in AssignedSingle(p) THEN 1 ELSE 0
              /\ Len(Written(UnpairedFasta(t)))
                    = Cardinality({p \in 1..it1 : t \in AssignedSingle(p)})
        /\ dirs = UNION {AssignedSingle(p) : p \in 1..it1}

\* C3: in paired-end mode with two sources of equal length, every
\* interleaved FASTA file holds an even number of records, and its records
\* 2k-1 and 2k are the records of source 1 and of source 2 at one and the same
\* position, mate 1 first.
C3_PairsWrittenTogether ==
    (PairedMode /\ Len(readfiles[1]) = Len(readfiles[2])) =>
        \A f \in DOMAIN files :
            f[4] = "_interleaved.fasta" =>
                /\ Len(files[f]) % 2 = 0
                /\ \A k \in 1..(Len(files[f]) \div 2) :
                      \E p \in 1..Len(readfiles[1]) :
                          /\ files[f][2 * k - 1] =
                                Fasta(NormalizedID(readfiles[1][p].title), <<"seq", 1, p>>)
                          /\ files[f][2 * k] =
                                Fasta(NormalizedID(readfiles[2][p].title), <<"seq", 2, p>>)

\* C3 witness: both pairs of two equally long sources are in one interleaved
\* FASTA file
C3_Witness ==
    /\ PairedMode
    /\ Len(readfiles[1]) = 2 /\ Len(readfiles[2]) = 2
    /\ run = 1 /\ pc = "done"
    /\ \E f \in DOMAIN files : f[4] = "_interleaved.fasta" /\ Len(files[f]) = 4

\* The targets first-match-wins gives the p-th pair
Honoured(p) ==
    LET n1 == NormalizedID(readfiles[1][p].title)
        n2 == NormalizedID(readfiles[2][p].title)
    IN  IF n1 \in DOMAIN read_hit_dict THEN Range(read_hit_dict[n1])
        ELSE IF n2 \in DOMAIN read_hit_dict THEN Range(read_hit_dict[n2])
        ELSE {}

\* C4: in paired-end mode every processed pair has been written, once and
\* with both mates, to the interleaved FASTA file of each target of
\* identifier 1 when identifier 1 is a key of the hit index, else of each
\* target of identifier 2 when identifier 2 is a key, and to the file of no
\* other target.
C4_FirstMatchWins ==
    (PairedMode /\ IndexBuilt) =>
        \A p \in 1..it2 : \A t \in TargetNames : \A s \in {1, 2} :
            Occurrences(Written(InterleavedFasta(t)), <<"seq", s, p>>)
                = IF t \in Honoured(p) THEN 1 ELSE 0

\* C4 witness: both identifiers of a processed pair are keys with different
\* target sets; the pair is in the file of a target of identifier 1 and not
\* in the file of a target of identifier 2
C4_Witness ==
    /\ PairedMode /\ IndexBuilt /\ it2 >= 1
    /\ LET n1 == NormalizedID(readfiles[1][1].title)
           n2 == NormalizedID(readfiles[2][1].title)
       IN  /\ n1 \in DOMAIN read_hit_dict
           /\ n2 \in DOMAIN read_hit_dict
           /\ \E t \in Range(read_hit_dict[n2]) :
                 /\ t \notin Range(read_hit_dict[n1])
                 /\ Occurrences(Written(InterleavedFasta(t)), <<"seq", 1, 1>>) = 0
           /\ \E t \in Range(read_hit_dict[n1]) :
                 Occurrences(Written(InterleavedFasta(t)), <<"seq", 1, 1>>) = 1

\* C8: in paired-end mode with the merged flag a target has an interleaved
\* FASTQ file exactly when it has an interleaved FASTA file, and the two list
\* the same reads in the same order, the FASTQ records with a "+" line and the
\* quality string of the read; without the flag no interleaved FASTQ file
\* exists.
C8_MergedAddsFastq ==
    PairedMode =>
        /\ merged =>
              \A t \in TargetNames :
                  LET fa == InterleavedFasta(t)
                      fq == InterleavedFastq(t)
                  IN  /\ fa \in DOMAIN files <=> fq \in DOMAIN files
                      /\ fa \in DOMAIN files =>
                            /\ Len(files[fa]) = Len(files[fq])
                            /\ \A k \in 1..Len(files[fa]) :
                                  /\ files[fa][k].fmt = "fasta"
                                  /\ files[fq][k] =
                                        Fastq(files[fa][k].id, files[fa][k].seq,
                                              <<"qual", files[fa][k].seq[2],
                                                files[fa][k].seq[3]>>)
        /\ ~merged => \A f \in DOMAIN files : f[4] # "_interleaved.fastq"

\* C8 witness: with the flag, a pair is in the FASTQ and in the FASTA file
C8_Witness ==
    /\ PairedMode /\ merged
    /\ \E t \in TargetNames :
          /\ InterleavedFastq(t) \in DOMAIN files
          /\ Len(files[InterleavedFastq(t)]) >= 2
          /\ Len(files[InterleavedFasta(t)]) >= 2

\* The p-th pair as write_paired_seqs gets it
Mate(s, p) ==
    [id   |-> NormalizedID(readfiles[s][p].title),
     seq  |-> readfiles[s][p].seq,
     qual |-> readfiles[s][p].qual]

\* What a run over the first n pairs appends to the interleaved files of t
RECURSIVE ExpectedFasta(_, _)
ExpectedFasta(t, n) ==
    IF n = 0 THEN <<>>
    ELSE ExpectedFasta(t, n - 1) \o
         (IF t \in Honoured(n)
          THEN <<Fasta(Mate(1, n).id, Mate(1, n).seq), Fasta(Mate(2, n).id, Mate(2, n).seq)>>
          ELSE <<>>)

RECURSIVE ExpectedFastq(_, _)
ExpectedFastq(t, n) ==
    IF n = 0 \/ ~merged THEN <<>>
    ELSE ExpectedFastq(t, n - 1) \o
         (IF t \in Honoured(n)
          THEN <<Fastq(Mate(1, n).id, Mate(1, n).seq, Mate(1, n).qual),
                 Fastq(Mate(2, n).id, Mate(2, n).seq, Mate(2, n).qual)>>
          ELSE <<>>)

\* The current run has appended exactly the output for the first n pairs
OutputOfPairs(n) ==
    /\ \A t \in TargetNames :
          /\ Written(InterleavedFasta(t)) = ExpectedFasta(t, n)
          /\ Written(InterleavedFastq(t)) = ExpectedFastq(t, n)
    /\ \A f \in DOMAIN files : f[4] \in {"_interleaved.fasta", "_interleaved.fastq"}

\* C10: a paired-end run that fails because source 2 is exhausted at position
\* k (k records in source 2, more in source 1) leaves what the pairs before k
\* appended: the run has appended exactly what a run that ends successfully
\* after k pairs has appended, and no record of source 1 from position k on
\* is in any file.
C10_FailedRunKeepsPrefix ==
    /\ (PairedMode /\ pc = "failed" /\ err = "StopIteration") =>
          /\ Len(readfiles[2]) < Len(readfiles[1])
          /\ OutputOfPairs(Len(readfiles[2]))
          /\ \A f \in DOMAIN files : \A k \in 1..Len(files[f]) :
                files[f][k].seq[2] = 1 => files[f][k].seq[3] <= Len(readfiles[2])
    /\ (PairedMode /\ pc = "done") => OutputOfPairs(Len(readfiles[1]))

\* C10 witness: the run has failed at position 1 of source 2 (one record in
\* source 2, two in source 1) and the first pair is in a file
C10_Witness ==
    /\ PairedMode /\ pc = "failed" /\ err = "StopIteration"
    /\ Len(readfiles[2]) = 1 /\ Len(readfiles[1]) = 2
    /\ \E t \in TargetNames : Len(Written(InterleavedFasta(t))) = 2

IsPrefix(q, r) == Len(q) <= Len(r) /\ SubSeq(r, 1, Len(q)) = q

\* C7: no step removes a file or changes what a file already holds (every
\* file keeps its content as a prefix), and when the second or a later run
\* over the same inputs in the same directory has ended, every file holds
\* what it held when that run started followed by the content the first run
\* left, and no other file exists.
C7_AppendOnlyRerunDuplicates ==
    [][ /\ \A f \in DOMAIN files :
              f \in DOMAIN files' /\ IsPrefix(files[f], files'[f])
        /\ (run' >= 2 /\ pc' \in {"done", "failed"}) =>
              /\ DOMAIN files' = DOMAIN hist'[2]
              /\ \A f \in DOMAIN files' :
                    files'[f] = hist'[run'][f] \o hist'[2][f]
      ]_vars

\* C7 witness: the second run has ended and a file holds its first-run
\* content twice
C7_Witness ==
    /\ run = 2 /\ pc = "done"
    /\ \E f \in DOMAIN files :
          /\ Len(hist[2][f]) >= 2
          /\ files[f] = hist[2][f] \o hist[2][f]
====
